---- MODULE Spec2Model ----
(***************************************************************************)
(* Voice-activity / audio-level monitor of livekit-voice-vite.             *)
(*                                                                         *)
(* Two React components run the monitor while the App is connected:        *)
(*   AudioControls     (AC): one analyser on the local microphone track,   *)
(*                           state isSpeaking / audioLevel;                *)
(*   ParticipantsList  (PL): one analyser per participant, kept in the     *)
(*                           effect-local analyzerMap, state               *)
(*                           speakingParticipants / audioLevels.           *)
(* Each analyser drives a requestAnimationFrame loop; the effect cleanups  *)
(* cancel the recorded frame ids.  Everything runs on one event loop, so   *)
(* an effect pass (cleanup + setup) and a frame callback are atomic steps. *)
(***************************************************************************)
EXTENDS Naturals, Integers, Sequences, FiniteSets, TLC

(* ------------------------------ bounds -------------------------------- *)

\* Frame ids handed out by requestAnimationFrame are capped at MaxFrameId.
MaxFrameId == 3

\* Room events the session provider emits in one run are capped at MaxEvents.
MaxEvents == 3

\* Clicks on "Join Room" (connectToRoom calls) in one run are capped at
\* MaxConnects.
MaxConnects == 2

\* speak calls of useTextToSpeech in one run are capped at MaxSpeaks.
MaxSpeaks == 2

\* Number of frequency bins of one spectrum snapshot in the model
\* (analyser.frequencyBinCount is fftSize / 2 = 256 in the program).
BinCount == 4

(* -------------------------- program constants ------------------------- *)

\* rms / 128: the normalisation ceiling of the 8-bit magnitude domain.
Ceiling == 128

\* speakingThreshold = 0.1, kept as the fraction ThresholdNum / ThresholdDen.
ThresholdNum == 1

ThresholdDen == 10

(* ----------------------------- identities ----------------------------- *)

Local == "me"

Remotes == {"r1"}

Identities == {Local} \cup Remotes

\* useParticipants lists the local participant first, then the remotes.
Order == <<"me", "r1">>

AC == "AC"

PL == "PL"

(* ------------------------- Loudness Estimator ------------------------- *)

Bins == 1..BinCount

RECURSIVE SumSquaresWrapped(_, _)
\* Mutant: each square is kept in 14 bits.
SumSquaresWrapped(dataArray, n) ==
  IF n = 0 THEN 0
  ELSE ((dataArray[n] * dataArray[n]) % 16384) + SumSquaresWrapped(dataArray, n - 1)

RECURSIVE SumSquares(_, _)
\* sum += dataArray[i] * dataArray[i], for i < n
SumSquares(dataArray, n) ==
  IF n = 0 THEN 0 ELSE dataArray[n] * dataArray[n] + SumSquares(dataArray, n - 1)

\* The denominator of a squared level: the level v stands for
\* sqrt(v / LevelDen); LevelDen itself stands for 1.0.
LevelDen == BinCount * Ceiling * Ceiling

\* Mutant: the level without Math.min(..., 1).
normalizedLevelUnclamped(dataArray) == SumSquares(dataArray, BinCount)

\* normalizedLevel = Math.min(Math.sqrt(sum / length) / 128, 1), kept exactly
\* as its square's numerator over LevelDen (sqrt and min are monotone, so
\* min(sqrt(s/n)/128, 1)^2 = min(s, n*128*128) / (n*128*128)).
normalizedLevel(dataArray) ==
  LET sum == SumSquares(dataArray, BinCount)
  IN  IF sum < LevelDen THEN sum ELSE LevelDen

\* normalizedLevel > speakingThreshold, compared on the squares:
\* sqrt(v / LevelDen) > 1/10  iff  v * 10 * 10 > LevelDen * 1 * 1.
AboveThreshold(level) ==
  level * ThresholdDen * ThresholdDen > LevelDen * ThresholdNum * ThresholdNum

\* Spectrum snapshots fed to the frame steps: silence, one faint bin
\* (level just under the threshold), and every bin at full scale (clamped).
Silent == [b \in Bins |-> 0]

Faint == [b \in Bins |-> IF b = 1 THEN 18 ELSE 0]

Full == [b \in Bins |-> 255]

FrameInputs == {Silent, Faint, Full}

(* ------------------------ session provider state ---------------------- *)

\* One microphone publication as the monitor reads it:
\*   track      publication.track is defined
\*   stream     0: track.mediaStreamTrack undefined; else the stream object
\*   subscribed publication.isSubscribed
\*   enabled    publication.isEnabled
\*   muted      publication.isMuted
NoTrack == [track |-> FALSE, stream |-> 0, subscribed |-> FALSE,
            enabled |-> TRUE, muted |-> FALSE]

Streams == {1, 2}

\* audioLevels[identity] is undefined until a frame step writes it.
Undefined == 0 - 1

VARIABLES
  mounted,               \* App.isConnected: AudioControls and ParticipantsList are mounted
  participants,          \* the array useParticipants() returned last (as a set)
  tracks,                \* identity -> microphone publication
  events,                \* room events emitted so far
  changed,               \* what changed in the snapshot since the PL effect ran last: "no", "mute" (mute flags only), "yes"
  plDirty,               \* useParticipants() returned a new array; the PL effect has not re-run yet
  raf,                   \* pending animation-frame callbacks: {[id, pipe]}
  nextFrameId,           \* the id the next requestAnimationFrame returns
  pipes,                 \* every analyser pipeline created so far, in creation order
  acEffect,              \* AC effect instance: [cleanup, pipe] (pipe 0: animationFrameId undefined)
  analyzerMap,           \* PL effect instance: identity -> pipe (0: no entry)
  isSpeaking,            \* AC state
  audioLevel,            \* AC state
  speakingParticipants,  \* PL state
  audioLevels,           \* PL state: identity -> level or Undefined
  threw,                 \* binds that threw in each monitor's latest effect run: {<<monitor, identity>>}
  rc,                    \* RoomConnection, the Room's listeners and App's connection flag
  tts,                   \* useTextToSpeech: its refs, its speak calls in flight, its audio elements
  last                   \* the step taken last, and the frame step it ran (if any)

vars == <<mounted, participants, tracks, events, changed, plDirty, raf, nextFrameId, pipes,
          acEffect, analyzerMap, isSpeaking, audioLevel,
          speakingParticipants, audioLevels, threw, rc, tts, last>>


(* ------------------- RoomConnection and useTextToSpeech ---------------- *)

\* RoomConnection before the first click, with the Room it is given and
\* App's flag:
\*   isConnecting, isConnected  RoomConnection's state
\*   appConnected               App's isConnected, set by onConnectionChange
\*   pc         where the connectToRoom call in progress is awaiting
\*   leaving    a disconnectFromRoom call is awaiting room.disconnect()
\*   handlers   listeners registered on the Room for RoomEvent.Connected
\*              (and as many for RoomEvent.Disconnected)
\*   room       the Room's connection state
\*   calls      onConnectionChange invocations by the listeners of the room
\*              event emitted last
\*   connects   connectToRoom calls so far
\*   error      App's error state, set by onError and cleared by
\*              onConnectionChange(true)
NoRoomConnection ==
  [isConnecting |-> FALSE, isConnected |-> FALSE, appConnected |-> FALSE,
   pc |-> "idle", leaving |-> FALSE, handlers |-> 0, room |-> "disconnected",
   calls |-> 0, connects |-> 0, error |-> ""]

\* useTextToSpeech after its first render:
\*   audioRef     audioRef.current: 0 (null) or an audio element
\*   timeoutRef   timeoutRef.current is a timer id (not null)
\*   timer        the timer of speakWithDelay is pending
\*   pendingText  pendingTextRef.current is a text (not null)
\*   calls        the speak calls awaiting their response, by call number
\*   audios       the state of every audio element created, in creation order
\*   stopped      stopSpeaking returned and none of speak, speakWithDelay,
\*                triggerPendingSpeech was called since
\*   speaks       speak calls so far
NoSpeech ==
  [audioRef |-> 0, timeoutRef |-> FALSE, timer |-> FALSE, pendingText |-> FALSE,
   calls |-> {}, audios |-> <<>>, stopped |-> FALSE, speaks |-> 0]

(* ------------------------- the program's heap ------------------------- *)

\* The part of the state the monitor's code reads and writes, as one record,
\* so that the handlers below compose as the code's calls do.
Heap ==
  [mounted |-> mounted, raf |-> raf, next |-> nextFrameId, pipes |-> pipes,
   acEffect |-> acEffect, map |-> analyzerMap,
   isSpeaking |-> isSpeaking, audioLevel |-> audioLevel,
   speaking |-> speakingParticipants, levels |-> audioLevels,
   threw |-> threw,
   frame |-> "none", fid |-> Local, fenabled |-> TRUE, fmuted |-> FALSE,
   fdata |-> Silent, fwasQuiet |-> FALSE]

\* One analyser pipeline: the AudioContext, the analyser and the closure
\* detectVoiceActivity created by one successful bind.
\*   frameId  the animation-frame id recorded for cancellation
\*   ctxOpen  its AudioContext has not been closed
\*   stopped  the effect cleanup that tears it down has returned
\*   cancels  how often its recorded frame id was cancelled
\*   stepped  it has run a frame step; late: it ran one after stopped
\*   quiet    its latest frame step took the disabled-or-muted branch
NewPipe(mon, id, stream) ==
  [mon |-> mon, id |-> id, stream |-> stream, frameId |-> 0, ctxOpen |-> TRUE,
   stopped |-> FALSE, cancels |-> 0, stepped |-> FALSE, late |-> FALSE,
   quiet |-> FALSE]

\* A pipeline whose teardown has returned: its recorded frame id was
\* cancelled once more, and the effect instance that held the id (the
\* effect's variable, the analyzerMap entry) is gone.
Stopped(pipe) ==
  [pipe EXCEPT !.stopped = TRUE, !.cancels = @ + 1, !.frameId = 0,
               !.quiet = FALSE]

\* The recorded throws of monitor mon.
ThrewOf(set, mon) == {x \in set : x[1] = mon}

NoEffect == [cleanup |-> FALSE, pipe |-> 0]

EmptyMap == [i \in Identities |-> 0]

NoLevels == [i \in Identities |-> Undefined]

\* requestAnimationFrame(callback of pipeline p): returns the id s.next.
requestAnimationFrame(s, p) ==
  [s EXCEPT !.raf = @ \cup {[id |-> s.next, pipe |-> p]}, !.next = @ + 1]

\* Mutant: the cancellation is lost.
cancelAnimationFrameLost(s, id) == s

cancelAnimationFrame(s, id) ==
  [s EXCEPT !.raf = {f \in @ : f.id # id}]

\* What a frame step leaves for the observer of the step: which monitor and
\* identity stepped, the flags it read and the spectrum it was given.
Observed(s, mon, p, trk, dataArray) ==
  [s EXCEPT !.frame = mon, !.fid = s.pipes[p].id, !.fenabled = trk.enabled,
            !.fmuted = trk.muted, !.fdata = dataArray,
            !.fwasQuiet = s.pipes[p].quiet,
            !.pipes[p].stepped = TRUE,
            !.pipes[p].late = @ \/ s.pipes[p].stopped,
            !.pipes[p].quiet = ~trk.enabled \/ trk.muted]

(* --------------------------- AudioControls ---------------------------- *)

\* setIsSpeaking / setAudioLevel: a state update of an unmounted component
\* is dropped.
setLocalState(s, speakingNow, level) ==
  IF s.mounted
    THEN [s EXCEPT !.isSpeaking = speakingNow, !.audioLevel = level]
    ELSE s

\* Mutant: the frame step tests isEnabled only, not isMuted.
detectVoiceActivityIgnoreMuted(s, p, trk, dataArray) ==
  IF ~trk.enabled
    THEN LET s1 == setLocalState(s, FALSE, 0)
             s2 == requestAnimationFrame(s1, p)
         IN  Observed([s2 EXCEPT !.pipes[p].frameId = s1.next], AC, p, trk, dataArray)
    ELSE LET level == normalizedLevel(dataArray)
             s1 == setLocalState(s, AboveThreshold(level), level)
             s2 == requestAnimationFrame(s1, p)
         IN  Observed([s2 EXCEPT !.pipes[p].frameId = s1.next], AC, p, trk, dataArray)

\* detectVoiceActivity of AudioControls, one call.  animationFrameId is the
\* effect's variable; the pipeline record carries it.
detectVoiceActivity(s, p, trk, dataArray) ==
  IF ~trk.enabled \/ trk.muted
    THEN LET s1 == setLocalState(s, FALSE, 0)
             s2 == requestAnimationFrame(s1, p)
         IN  Observed([s2 EXCEPT !.pipes[p].frameId = s1.next], AC, p, trk, dataArray)
    ELSE LET level == normalizedLevel(dataArray)
             s1 == setLocalState(s, AboveThreshold(level), level)
             s2 == requestAnimationFrame(s1, p)
         IN  Observed([s2 EXCEPT !.pipes[p].frameId = s1.next], AC, p, trk, dataArray)

\* setupAudioAnalyzer: ok = FALSE is an exception inside the try block
\* (new AudioContext() throws), which the catch logs.  The closure it
\* returns (cancel + audioContext.close()) is dropped by the caller.
setupAudioAnalyzer(s, trk, ok, dataArray) ==
  IF trk.stream = 0 THEN s
  ELSE IF ~ok THEN [s EXCEPT !.threw = @ \cup {<<AC, Local>>}]
  ELSE LET p == Len(s.pipes) + 1
           s1 == [s EXCEPT !.pipes = Append(@, NewPipe(AC, Local, trk.stream)),
                           !.acEffect.pipe = p]
       IN  detectVoiceActivity(s1, p, trk, dataArray)

\* The voice-activity effect of AudioControls (deps [localParticipant]).
ACEffect(s, trk, ok, dataArray) ==
  IF ~trk.track THEN [s EXCEPT !.acEffect = NoEffect, !.threw = ThrewOf(@, PL)]
  ELSE setupAudioAnalyzer([s EXCEPT !.acEffect = [cleanup |-> TRUE, pipe |-> 0],
                                    !.threw = ThrewOf(@, PL)],
                          trk, ok, dataArray)

\* Mutant: the cleanup cancels nothing.
ACCleanupNoCancel(s) == [s EXCEPT !.acEffect = NoEffect]

\* The effect's cleanup: if (animationFrameId) cancelAnimationFrame(animationFrameId).
ACCleanup(s) ==
  IF s.acEffect.cleanup /\ s.acEffect.pipe # 0
    THEN LET p == s.acEffect.pipe
             s1 == cancelAnimationFrame(s, s.pipes[p].frameId)
         IN  [s1 EXCEPT !.pipes[p] = Stopped(@), !.acEffect = NoEffect]
    ELSE [s EXCEPT !.acEffect = NoEffect]

(* -------------------------- ParticipantsList -------------------------- *)

\* Mutant: the frame step updates the loudness map and leaves the speaking
\* set as it was.
setParticipantStateLevelOnly(s, id, speakingNow, level) ==
  IF s.mounted
    THEN [s EXCEPT !.levels[id] = level]
    ELSE s

\* setSpeakingParticipants / setAudioLevels for one identity.
setParticipantState(s, id, speakingNow, level) ==
  IF s.mounted
    THEN [s EXCEPT !.speaking = IF speakingNow THEN @ \cup {id} ELSE @ \ {id},
                   !.levels[id] = level]
    ELSE s

\* Mutant: the next callback is requested and its id is not stored in the
\* entry.
rescheduleParticipantUnrecorded(s, p) ==
  IF s.map[s.pipes[p].id] = p
    THEN requestAnimationFrame(s, p)
    ELSE s

\* analyzerData = analyzerMap.get(identity); if (analyzerData)
\*   analyzerData.animationFrameId = requestAnimationFrame(detectVoiceActivity)
\* The map is the one of the effect instance that created pipeline p; a
\* cleaned-up instance's map is empty.
rescheduleParticipant(s, p) ==
  IF s.map[s.pipes[p].id] = p
    THEN [requestAnimationFrame(s, p) EXCEPT !.pipes[p].frameId = s.next]
    ELSE s

\* Mutant: in the enabled, unmuted branch the identity is always added to
\* the speaking set.
detectParticipantVoiceActivityAlwaysAdd(s, p, trk, dataArray) ==
  LET id == s.pipes[p].id
  IN  IF ~trk.enabled \/ trk.muted
        THEN Observed(rescheduleParticipant(setParticipantState(s, id, FALSE, 0), p),
                      PL, p, trk, dataArray)
        ELSE LET level == normalizedLevel(dataArray)
             IN  Observed(rescheduleParticipant(
                            setParticipantState(s, id, TRUE, level), p),
                          PL, p, trk, dataArray)

\* detectVoiceActivity of ParticipantsList, one call.
detectParticipantVoiceActivity(s, p, trk, dataArray) ==
  LET id == s.pipes[p].id
  IN  IF ~trk.enabled \/ trk.muted
        THEN Observed(rescheduleParticipant(setParticipantState(s, id, FALSE, 0), p),
                      PL, p, trk, dataArray)
        ELSE LET level == normalizedLevel(dataArray)
             IN  Observed(rescheduleParticipant(
                            setParticipantState(s, id, AboveThreshold(level), level), p),
                          PL, p, trk, dataArray)

\* Mutant: the bind does not test isSubscribed.
setupParticipantAudioAnalyzerUnsubscribed(s, id, trk, ok) ==
  IF ~trk.track THEN s
  ELSE IF trk.stream = 0 THEN s
  ELSE IF ~ok THEN [s EXCEPT !.threw = @ \cup {<<PL, id>>}]
  ELSE LET p == Len(s.pipes) + 1
           s1 == [s EXCEPT !.pipes = Append(@, [NewPipe(PL, id, trk.stream)
                                                  EXCEPT !.frameId = s.next])]
           s2 == requestAnimationFrame(s1, p)
       IN  [s2 EXCEPT !.map[id] = p]

\* Mutant: the setup binds a track that has no media stream yet.
setupParticipantAudioAnalyzerNoStreamGuard(s, id, trk, ok) ==
  IF ~trk.track \/ ~trk.subscribed THEN s
  ELSE IF ~ok THEN [s EXCEPT !.threw = @ \cup {<<PL, id>>}]
  ELSE LET p == Len(s.pipes) + 1
           s1 == [s EXCEPT !.pipes = Append(@, [NewPipe(PL, id, trk.stream)
                                                  EXCEPT !.frameId = s.next])]
           s2 == requestAnimationFrame(s1, p)
       IN  [s2 EXCEPT !.map[id] = p]

\* setupParticipantAudioAnalyzer: ok = FALSE is an exception inside the try
\* block (new AudioContext() throws), caught and logged.
setupParticipantAudioAnalyzer(s, id, trk, ok) ==
  IF ~trk.track \/ ~trk.subscribed THEN s
  ELSE IF trk.stream = 0 THEN s
  ELSE IF ~ok THEN [s EXCEPT !.threw = @ \cup {<<PL, id>>}]
  ELSE LET p == Len(s.pipes) + 1
           s1 == [s EXCEPT !.pipes = Append(@, [NewPipe(PL, id, trk.stream)
                                                  EXCEPT !.frameId = s.next])]
           s2 == requestAnimationFrame(s1, p)
       IN  [s2 EXCEPT !.map[id] = p]

RECURSIVE setupAllAbortOnThrow(_, _, _, _, _)
\* Mutant: the first setup that throws ends the forEach.
setupAllAbortOnThrow(s, k, parts, trks, fails) ==
  IF k > Len(Order) THEN s
  ELSE LET id == Order[k]
           s1 == setupParticipantAudioAnalyzer(s, id, trks[id], id \notin fails)
       IN  IF id \in parts
             THEN IF <<PL, id>> \in s1.threw THEN s1
                  ELSE setupAllAbortOnThrow(s1, k + 1, parts, trks, fails)
             ELSE setupAllAbortOnThrow(s, k + 1, parts, trks, fails)

RECURSIVE setupAll(_, _, _, _, _)
\* participants.forEach(setupParticipantAudioAnalyzer), from position k on.
setupAll(s, k, parts, trks, fails) ==
  IF k > Len(Order) THEN s
  ELSE LET id == Order[k]
       IN  IF id \in parts
             THEN setupAll(setupParticipantAudioAnalyzer(s, id, trks[id], id \notin fails),
                           k + 1, parts, trks, fails)
             ELSE setupAll(s, k + 1, parts, trks, fails)

\* The voice-activity effect of ParticipantsList (deps [participants]):
\* a new analyzerMap, then one setup per participant.
PLEffect(s, parts, trks, fails) ==
  setupAll([s EXCEPT !.map = EmptyMap, !.threw = ThrewOf(@, AC)],
           1, parts, trks, fails)

RECURSIVE cleanupAll(_, _)
\* analyzerMap.forEach(({animationFrameId}) => cancelAnimationFrame(animationFrameId))
cleanupAll(s, k) ==
  IF k > Len(Order) THEN s
  ELSE LET p == s.map[Order[k]]
       IN  IF p = 0 THEN cleanupAll(s, k + 1)
           ELSE cleanupAll([cancelAnimationFrame(s, s.pipes[p].frameId)
                              EXCEPT !.pipes[p] = Stopped(@)], k + 1)

\* Mutant: the cleanup clears the map and cancels nothing.
PLCleanupNoCancel(s) == [s EXCEPT !.map = EmptyMap]

\* The effect's cleanup: cancel every entry's frame id, then analyzerMap.clear().
PLCleanup(s) ==
  [cleanupAll(s, 1) EXCEPT !.map = EmptyMap]


(* ------------------------------ actions ------------------------------- *)

\* The step just taken, for the observer: op names the action; frame is the
\* monitor whose frame step ran in it ("none" if none), with the identity,
\* the flags read, the spectrum given, and whether the pipeline's previous
\* frame step took the disabled-or-muted branch.
Last(op, s) ==
  [op |-> op, frame |-> s.frame, id |-> s.fid, enabled |-> s.fenabled,
   muted |-> s.fmuted, data |-> s.fdata, wasQuiet |-> s.fwasQuiet]

\* Write a heap back to the variables.
Commit(op, s) ==
  /\ s.next <= MaxFrameId + 1
  /\ mounted' = s.mounted
  /\ raf' = s.raf
  /\ nextFrameId' = s.next
  /\ pipes' = s.pipes
  /\ acEffect' = s.acEffect
  /\ analyzerMap' = s.map
  /\ isSpeaking' = s.isSpeaking
  /\ audioLevel' = s.audioLevel
  /\ speakingParticipants' = s.speaking
  /\ audioLevels' = s.levels
  /\ threw' = s.threw
  /\ UNCHANGED <<rc, tts>>
  /\ last' = Last(op, s)

Init ==
  /\ mounted = FALSE
  /\ participants = {Local}
  /\ tracks = [i \in Identities |-> NoTrack]
  /\ plDirty = FALSE
  /\ raf = {}
  /\ nextFrameId = 1
  /\ pipes = <<>>
  /\ acEffect = NoEffect
  /\ analyzerMap = EmptyMap
  /\ isSpeaking = FALSE
  /\ audioLevel = 0
  /\ speakingParticipants = {}
  /\ audioLevels = NoLevels
  /\ threw = {}
  /\ rc = NoRoomConnection
  /\ tts = NoSpeech
  /\ events = 0
  /\ changed = "no"
  /\ last = [op |-> "Init", frame |-> "none", id |-> Local, enabled |-> TRUE,
             muted |-> FALSE, data |-> Silent, wasQuiet |-> FALSE]

\* App sets isConnected: AudioControls and ParticipantsList mount with their
\* initial state and both voice-activity effects run.
MountEffects(s, trks, parts, ok, dataArray, fails) ==
  PLEffect(ACEffect([s EXCEPT !.mounted = TRUE], trks[Local], ok, dataArray),
           parts, trks, fails)

Mount ==
  /\ ~mounted
  /\ \E ok \in BOOLEAN, dataArray \in FrameInputs, fails \in SUBSET participants :
       Commit("Mount", MountEffects(Heap, tracks, participants, ok, dataArray, fails))
  /\ plDirty' = FALSE
  /\ changed' = "no"
  /\ UNCHANGED <<participants, tracks, events>>

\* Mutant: the unmount discards the components without running the cleanup
\* of ParticipantsList's effect.
UnmountEffectsKeepRegistry(s) ==
  [ACCleanup(s) EXCEPT !.mounted = FALSE, !.isSpeaking = FALSE,
                       !.audioLevel = 0, !.speaking = {},
                       !.levels = NoLevels, !.threw = {}]

\* App clears isConnected: both components unmount, both cleanups run and
\* the components' state is discarded.
UnmountEffects(s) ==
  [PLCleanup(ACCleanup(s)) EXCEPT !.mounted = FALSE, !.isSpeaking = FALSE,
                                  !.audioLevel = 0, !.speaking = {},
                                  !.levels = NoLevels, !.threw = {}]

Unmount ==
  /\ mounted
  /\ Commit("Unmount", UnmountEffects(Heap))
  /\ plDirty' = FALSE
  /\ changed' = "no"
  /\ UNCHANGED <<participants, tracks, events>>

\* Mutant: the effect runs again without the previous cleanup.
ReconcileWithoutCleanup(s, parts, trks, fails) ==
  PLEffect(s, parts, trks, fails)

\* One reconciliation pass of ParticipantsList: participants changed, so the
\* previous effect's cleanup runs and then the effect runs again.
Reconcile(s, parts, trks, fails) ==
  PLEffect(PLCleanup(s), parts, trks, fails)

PLPass ==
  /\ mounted
  /\ plDirty
  /\ \E fails \in SUBSET participants :
       Commit("PLPass", Reconcile(Heap, participants, tracks, fails))
  /\ plDirty' = FALSE
  /\ changed' = "no"
  /\ UNCHANGED <<participants, tracks, events>>

\* The browser runs one pending animation-frame callback.
RunFrame(s, f, trks, dataArray) ==
  LET p == f.pipe
      s1 == [s EXCEPT !.raf = @ \ {f}]
  IN  IF s.pipes[p].mon = AC
        THEN detectVoiceActivity(s1, p, trks[Local], dataArray)
        ELSE detectParticipantVoiceActivity(s1, p, trks[s.pipes[p].id], dataArray)

\* Mutant: the frame step mutes the local microphone track.
FrameTickMutingTrack ==
  /\ \E f \in raf, dataArray \in FrameInputs :
       Commit("FrameTick", RunFrame(Heap, f, tracks, dataArray))
  /\ tracks' = [tracks EXCEPT ![Local].muted = TRUE]
  /\ UNCHANGED <<participants, events, changed, plDirty>>

FrameTick ==
  /\ \E f \in raf, dataArray \in FrameInputs :
       Commit("FrameTick", RunFrame(Heap, f, tracks, dataArray))
  /\ UNCHANGED <<participants, tracks, events, changed, plDirty>>

(* --------------------- session provider (environment) ----------------- *)

NoFrame(op) ==
  [op |-> op, frame |-> "none", id |-> Local, enabled |-> TRUE,
   muted |-> FALSE, data |-> Silent, wasQuiet |-> FALSE]

\* What every room event does to the rest of the state: nothing.
RoomEvent ==
  /\ events < MaxEvents
  /\ events' = events + 1
  /\ last' = NoFrame("RoomEvent")
  /\ UNCHANGED <<mounted, raf, nextFrameId, pipes, acEffect, analyzerMap,
                 isSpeaking, audioLevel, speakingParticipants, audioLevels,
                 threw, rc, tts>>

\* A room event in useParticipants' update list: a new participants array.
Notify == plDirty' = mounted

\* A remote participant joins or leaves.
ParticipantConnected ==
  /\ \E r \in Remotes \ participants : participants' = participants \cup {r}
  /\ Notify
  /\ changed' = (IF mounted THEN "yes" ELSE "no")
  /\ RoomEvent
  /\ UNCHANGED tracks

ParticipantDisconnected ==
  /\ \E r \in Remotes \cap participants :
       /\ participants' = participants \ {r}
       /\ tracks' = [tracks EXCEPT ![r] = NoTrack]
  /\ Notify
  /\ changed' = (IF mounted THEN "yes" ELSE "no")
  /\ RoomEvent

\* A microphone track is published (and, for a remote, subscribed); its
\* media stream may not be negotiated yet.
TrackPublished ==
  /\ \E i \in participants, st \in {0, 1} :
       /\ ~tracks[i].track
       /\ tracks' = [tracks EXCEPT ![i] = [track |-> TRUE, stream |-> st,
                                           subscribed |-> TRUE, enabled |-> TRUE,
                                           muted |-> FALSE]]
  /\ Notify
  /\ changed' = (IF mounted THEN "yes" ELSE "no")
  /\ RoomEvent
  /\ UNCHANGED participants

TrackUnpublished ==
  /\ \E i \in participants :
       /\ tracks[i].track
       /\ tracks' = [tracks EXCEPT ![i] = NoTrack]
  /\ Notify
  /\ changed' = (IF mounted THEN "yes" ELSE "no")
  /\ RoomEvent
  /\ UNCHANGED participants

\* The subscription of a remote track is switched off or on again.
SubscriptionChanged ==
  /\ \E r \in Remotes \cap participants :
       /\ tracks[r].track
       /\ tracks' = [tracks EXCEPT ![r].subscribed = ~@]
  /\ Notify
  /\ changed' = (IF mounted THEN "yes" ELSE "no")
  /\ RoomEvent
  /\ UNCHANGED participants

\* TrackMuted / TrackUnmuted.
MuteChanged ==
  /\ \E i \in participants :
       /\ tracks[i].track
       /\ tracks' = [tracks EXCEPT ![i].muted = ~@]
  /\ Notify
  /\ changed' = (IF ~mounted THEN "no" ELSE IF changed = "yes" THEN "yes" ELSE "mute")
  /\ RoomEvent
  /\ UNCHANGED participants

\* A remote publication is disabled or enabled (a local publication's
\* isEnabled is constant).  Whether useParticipants re-renders is the SDK's.
EnabledChanged ==
  /\ \E r \in Remotes \cap participants :
       /\ tracks[r].track
       /\ tracks' = [tracks EXCEPT ![r].enabled = ~@]
  /\ \E n \in BOOLEAN : plDirty' = (plDirty \/ (mounted /\ n))
  /\ changed' = (IF mounted THEN "yes" ELSE "no")
  /\ RoomEvent
  /\ UNCHANGED participants

\* The track gets a new media stream object: negotiation ends, or the device
\* is swapped.  Whether useParticipants re-renders is the SDK's.
StreamChanged ==
  /\ \E i \in participants :
       /\ tracks[i].track
       /\ tracks[i].stream + 1 \in Streams
       /\ tracks' = [tracks EXCEPT ![i].stream = @ + 1]
  /\ \E n \in BOOLEAN : plDirty' = (plDirty \/ (mounted /\ n))
  /\ changed' = (IF mounted THEN "yes" ELSE "no")
  /\ RoomEvent
  /\ UNCHANGED participants

\* Any other room event of the list (connection quality, metadata, ...):
\* a new participants array with the same membership and track state.
ParticipantsUpdated ==
  /\ mounted
  /\ ~plDirty
  /\ plDirty' = TRUE
  /\ RoomEvent
  /\ UNCHANGED changed
  /\ UNCHANGED <<participants, tracks>>

Next ==
  \/ Mount
  \/ Unmount
  \/ PLPass
  \/ FrameTick
  \/ ParticipantConnected
  \/ ParticipantDisconnected
  \/ TrackPublished
  \/ TrackUnpublished
  \/ SubscriptionChanged
  \/ MuteChanged
  \/ EnabledChanged
  \/ StreamChanged
  \/ ParticipantsUpdated

Spec == Init /\ [][Next]_vars


(* ------------------- frame steps that fail unexpectedly ---------------- *)

\* A pending frame callback runs on an enabled, unmuted track and
\* analyser.getByteFrequencyData throws: detectVoiceActivity has no
\* try/catch, so the callback ends there, before any state update and before
\* requestAnimationFrame; the exception goes to the browser's error handler.
RunFrameFault(s, f, trks) ==
  LET p == f.pipe
      s1 == [s EXCEPT !.raf = @ \ {f}]
  IN  Observed(s1, s.pipes[p].mon, p, trks[s.pipes[p].id], Silent)

FrameFault ==
  /\ \E f \in raf :
       /\ tracks[pipes[f.pipe].id].enabled
       /\ ~tracks[pipes[f.pipe].id].muted
       /\ Commit("FrameFault", RunFrameFault(Heap, f, tracks))
  /\ UNCHANGED <<participants, tracks, events, changed, plDirty>>

FaultNext == Next \/ FrameFault

FaultSpec == Init /\ [][FaultNext]_vars

(* ------------------- the Loudness Estimator on its own ----------------- *)

\* Bin values of getByteFrequencyData (a Uint8Array, 0..255) the estimator
\* is run on: silence, values around the speaking threshold, values around
\* the ceiling 128, and the maximum.
Magnitudes == {0, 18, 26, 128, 129, 255}

Vectors == [Bins -> Magnitudes]

\* A spectrum snapshot is given; nothing is computed yet.
LoudnessInit ==
  /\ mounted = TRUE
  /\ participants = {Local}
  /\ tracks = [i \in Identities |-> NoTrack]
  /\ plDirty = FALSE
  /\ raf = {}
  /\ nextFrameId = 1
  /\ pipes = <<>>
  /\ acEffect = NoEffect
  /\ analyzerMap = EmptyMap
  /\ isSpeaking = FALSE
  /\ audioLevel = 0
  /\ speakingParticipants = {}
  /\ audioLevels = NoLevels
  /\ threw = {}
  /\ rc = NoRoomConnection
  /\ tts = NoSpeech
  /\ events = 0
  /\ changed = "no"
  /\ \E dataArray \in Vectors : last = [NoFrame("Snapshot") EXCEPT !.data = dataArray]

\* The loudness part of a frame step on dataArray: the RMS level goes to
\* setAudioLevel and its comparison with the threshold to setIsSpeaking.
EstimateOn(op, dataArray) ==
  /\ last' = [NoFrame(op) EXCEPT !.data = dataArray]
  /\ audioLevel' = normalizedLevel(dataArray)
  /\ isSpeaking' = AboveThreshold(normalizedLevel(dataArray))
  /\ UNCHANGED <<mounted, participants, tracks, events, changed, plDirty, raf,
                 nextFrameId, pipes, acEffect, analyzerMap,
                 speakingParticipants, audioLevels, threw, rc, tts>>

\* The estimator runs on the snapshot given.
Estimate ==
  /\ last.op = "Snapshot"
  /\ EstimateOn("Estimate", last.data)

\* The next snapshot has one bin raised, and the estimator runs on it.
RaiseBin ==
  /\ last.op # "Snapshot"
  /\ \E b \in Bins, m \in Magnitudes :
       /\ m > last.data[b]
       /\ EstimateOn("RaiseBin", [last.data EXCEPT ![b] = m])

LoudnessNext == Estimate \/ RaiseBin

LoudnessSpec == LoudnessInit /\ [][LoudnessNext]_vars

(* ---------------------------- RoomConnection --------------------------- *)

\* connectToRoom up to its first await: setIsConnecting(true), then
\* generateAccessToken is awaited.
connectToRoom(r) ==
  [r EXCEPT !.isConnecting = TRUE, !.pc = "token", !.connects = @ + 1]

\* The token is there: room.on(RoomEvent.Connected, ...),
\* room.on(RoomEvent.Disconnected, ...) and three more register new
\* listeners (nothing ever calls room.off), then createDispatch is awaited.
registerListeners(r) == [r EXCEPT !.handlers = @ + 1, !.pc = "dispatch"]

\* Mutant: the listeners set RoomConnection's flag and do not call
\* onConnectionChange.
emitLocalOnly(r, connected) ==
  IF r.handlers = 0
    THEN [r EXCEPT !.room = IF connected THEN "connected" ELSE "disconnected",
                   !.calls = 0]
    ELSE [r EXCEPT !.room = IF connected THEN "connected" ELSE "disconnected",
                   !.calls = 0, !.isConnected = connected]

\* The Room emits Connected (connected = TRUE) or Disconnected: every
\* registered listener runs setIsConnected(connected) and
\* onConnectionChange(connected), which is App's setIsConnected.
emit(r, connected) ==
  IF r.handlers = 0
    THEN [r EXCEPT !.room = IF connected THEN "connected" ELSE "disconnected",
                   !.calls = 0]
    ELSE [r EXCEPT !.room = IF connected THEN "connected" ELSE "disconnected",
                   !.calls = r.handlers, !.isConnected = connected,
                   !.appConnected = connected,
                   !.error = IF connected THEN "" ELSE @]

\* An await of connectToRoom rejects: the catch block runs onError,
\* setIsConnected(false), onConnectionChange(false), then finally
\* setIsConnecting(false).
connectFailed(r) ==
  [r EXCEPT !.isConnected = FALSE, !.appConnected = FALSE,
            !.isConnecting = FALSE, !.pc = "idle",
            !.error = "Failed to connect"]

\* room.connect resolved: finally setIsConnecting(false).
connectReturned(r) == [r EXCEPT !.isConnecting = FALSE, !.pc = "idle"]

\* disconnectFromRoom after room.disconnect() resolved (ok) or rejected.
disconnectFromRoom(r, ok) ==
  IF ok
    THEN [(IF r.room = "connected" THEN emit(r, FALSE) ELSE r)
            EXCEPT !.isConnected = FALSE, !.appConnected = FALSE,
                   !.leaving = FALSE]
    ELSE [r EXCEPT !.leaving = FALSE, !.error = "Disconnect error"]

\* One step of RoomConnection; the monitors and the speech hook stay as
\* they are.
ConnStep(op, r) ==
  /\ rc' = r
  /\ last' = NoFrame(op)
  /\ UNCHANGED <<mounted, participants, tracks, events, changed, plDirty, raf,
                 nextFrameId, pipes, acEffect, analyzerMap, isSpeaking,
                 audioLevel, speakingParticipants, audioLevels, threw, tts>>

\* "Join Room" is rendered while !isConnected and enabled while !isConnecting.
JoinClicked ==
  /\ ~rc.isConnected
  /\ ~rc.isConnecting
  /\ rc.connects < MaxConnects
  /\ ConnStep("JoinClicked", connectToRoom(rc))

TokenReady ==
  /\ rc.pc = "token"
  /\ ConnStep("TokenReady", registerListeners(rc))

DispatchCreated ==
  /\ rc.pc = "dispatch"
  /\ ConnStep("DispatchCreated", [rc EXCEPT !.pc = "connect"])

\* generateAccessToken, createDispatch or room.connect rejects.
ConnectFails ==
  /\ rc.pc \in {"token", "dispatch", "connect"}
  /\ ConnStep("ConnectFails", connectFailed(rc))

\* room.connect succeeds: the Room emits Connected before the promise
\* resolves.
RoomConnected ==
  /\ rc.pc = "connect"
  /\ rc.room = "disconnected"
  /\ ConnStep("RoomConnected", [emit(rc, TRUE) EXCEPT !.pc = "resolve"])

ConnectReturns ==
  /\ rc.pc = "resolve"
  /\ ConnStep("ConnectReturns", connectReturned(rc))

\* The server or the network ends the session: Disconnected with a reason,
\* which the listeners pass to onError.
RoomDisconnected ==
  /\ rc.room = "connected"
  /\ ConnStep("RoomDisconnected",
              [emit(rc, FALSE) EXCEPT !.error = IF rc.handlers = 0 THEN @
                                                ELSE "Disconnected"])

\* The Room emits Reconnecting (onError("Reconnecting...")) or Reconnected
\* (onError("")) while connected.
RoomReconnecting ==
  /\ rc.room = "connected"
  /\ rc.handlers > 0
  /\ \E msg \in {"Reconnecting...", ""} :
       /\ msg # rc.error
       /\ ConnStep("RoomReconnecting", [rc EXCEPT !.error = msg])

\* "Leave Room" is rendered while isConnected.
LeaveClicked ==
  /\ rc.isConnected
  /\ ~rc.leaving
  /\ ConnStep("LeaveClicked", [rc EXCEPT !.leaving = TRUE])

LeaveReturns ==
  /\ rc.leaving
  /\ \E ok \in BOOLEAN : ConnStep("LeaveReturns", disconnectFromRoom(rc, ok))

ConnNext ==
  \/ JoinClicked
  \/ TokenReady
  \/ DispatchCreated
  \/ ConnectFails
  \/ RoomConnected
  \/ ConnectReturns
  \/ RoomDisconnected
  \/ RoomReconnecting
  \/ LeaveClicked
  \/ LeaveReturns

ConnSpec == Init /\ [][ConnNext]_vars

(* --------------------------- useTextToSpeech --------------------------- *)

\* The audio elements created so far.
AudioIds(t) == 1..Len(t.audios)

\* audioRef.current.pause(), if audioRef.current is set.
pauseCurrent(t) ==
  IF t.audioRef = 0 THEN t
  ELSE [t EXCEPT !.audios[t.audioRef] = IF @ = "playing" THEN "paused" ELSE @,
                 !.audioRef = 0]

\* speak(text) up to its first await: the request is sent.
speak(t) ==
  [t EXCEPT !.calls = @ \cup {[n |-> t.speaks + 1, pc |-> "fetch"]},
            !.speaks = @ + 1]

\* await fetch(...) of call c settles: a network error or a response that
\* is not ok ends the call in the catch block; otherwise response.blob() is
\* awaited.
fetchSettled(t, c, ok) ==
  IF ok THEN [t EXCEPT !.calls = (@ \ {c}) \cup {[c EXCEPT !.pc = "blob"]}]
        ELSE [t EXCEPT !.calls = @ \ {c}]

\* await response.blob() of call c settles. With the blob: the current
\* audio is paused, a new Audio becomes audioRef.current and audio.play() is
\* called; played = FALSE is play() rejecting (caught and logged).
blobSettled(t, c, ok, played) ==
  IF ~ok THEN [t EXCEPT !.calls = @ \ {c}]
  ELSE LET t1 == pauseCurrent(t)
           a == Len(t1.audios) + 1
       IN  [t1 EXCEPT !.calls = @ \ {c},
                      !.audios = Append(@, IF played THEN "playing" ELSE "paused"),
                      !.audioRef = a]

\* audio.onended / audio.onerror of element a: audioRef.current = null.
audioOver(t, a, how) == [t EXCEPT !.audios[a] = how, !.audioRef = 0]

\* speakWithDelay: clearTimeout(timeoutRef.current) if set, then a new timer.
speakWithDelay(t) == [t EXCEPT !.timer = TRUE, !.timeoutRef = TRUE]

\* triggerPendingSpeech.
triggerPendingSpeech(t) ==
  IF t.pendingText THEN [speak(t) EXCEPT !.pendingText = FALSE] ELSE t

\* stopSpeaking: clear the timer, the pending text and the audio.
stopSpeaking(t) ==
  [pauseCurrent(t) EXCEPT !.timer = IF t.timeoutRef THEN FALSE ELSE @,
                          !.timeoutRef = FALSE, !.pendingText = FALSE,
                          !.stopped = TRUE]

\* One step of the hook; the monitors and RoomConnection stay as they are.
TtsStep(op, t) ==
  /\ tts' = t
  /\ last' = NoFrame(op)
  /\ UNCHANGED <<mounted, participants, tracks, events, changed, plDirty, raf,
                 nextFrameId, pipes, acEffect, analyzerMap, isSpeaking,
                 audioLevel, speakingParticipants, audioLevels, threw, rc>>

Speak ==
  /\ tts.speaks < MaxSpeaks
  /\ TtsStep("Speak", [speak(tts) EXCEPT !.stopped = FALSE])

SpeakWithDelay ==
  /\ TtsStep("SpeakWithDelay", [speakWithDelay(tts) EXCEPT !.stopped = FALSE])

\* The timer of speakWithDelay fires: speak(text).
TimerFires ==
  /\ tts.timer
  /\ tts.speaks < MaxSpeaks
  /\ TtsStep("TimerFires", [speak(tts) EXCEPT !.timer = FALSE])

SpeakWhenReady ==
  /\ TtsStep("SpeakWhenReady", [tts EXCEPT !.pendingText = TRUE])

TriggerPendingSpeech ==
  /\ tts.pendingText => tts.speaks < MaxSpeaks
  /\ TtsStep("TriggerPendingSpeech",
             [triggerPendingSpeech(tts) EXCEPT !.stopped = FALSE])

CancelPendingSpeech ==
  /\ TtsStep("CancelPendingSpeech", [tts EXCEPT !.pendingText = FALSE])

StopSpeaking ==
  /\ TtsStep("StopSpeaking", stopSpeaking(tts))

FetchSettles ==
  \E c \in tts.calls, ok \in BOOLEAN :
    /\ c.pc = "fetch"
    /\ TtsStep("FetchSettles", fetchSettled(tts, c, ok))

BlobSettles ==
  \E c \in tts.calls, ok \in BOOLEAN, played \in BOOLEAN :
    /\ c.pc = "blob"
    /\ TtsStep("BlobSettles", blobSettled(tts, c, ok, played))

\* A playing element reaches its end.
AudioEnded ==
  \E a \in AudioIds(tts) :
    /\ tts.audios[a] = "playing"
    /\ TtsStep("AudioEnded", audioOver(tts, a, "ended"))

\* An element that is not over fails to load or decode.
AudioError ==
  \E a \in AudioIds(tts) :
    /\ tts.audios[a] \in {"playing", "paused"}
    /\ TtsStep("AudioError", audioOver(tts, a, "failed"))

TtsNext ==
  \/ Speak
  \/ SpeakWithDelay
  \/ TimerFires
  \/ SpeakWhenReady
  \/ TriggerPendingSpeech
  \/ CancelPendingSpeech
  \/ StopSpeaking
  \/ FetchSettles
  \/ BlobSettles
  \/ AudioEnded
  \/ AudioError

TtsSpec == Init /\ [][TtsNext]_vars

(* ------------------------------ claims -------------------------------- *)

PipeIds == 1..Len(pipes)

\* Pipeline p has a scheduled frame callback.
Running(p) == \E f \in raf : f.pipe = p

RunningOf(mon, i) ==
  {p \in PipeIds : pipes[p].mon = mon /\ pipes[p].id = i /\ Running(p)}

\* The spectrum's loudness exceeds the speaking threshold 0.1:
\* sqrt(sum / BinCount) / 128 > 1 / 10.
Loud(dataArray) ==
  SumSquares(dataArray, BinCount) * 100 > BinCount * 128 * 128

Bindable(i) ==
  /\ i \in participants
  /\ tracks[i].track
  /\ tracks[i].subscribed
  /\ tracks[i].stream # 0

\* wanted, as the spec computes it: a subscribed, enabled microphone track.
WantedBySpec(i) ==
  /\ i \in participants
  /\ tracks[i].track
  /\ tracks[i].subscribed
  /\ tracks[i].enabled

\* Identity i has no entry, no scheduled callback, and each of its pipelines
\* in ParticipantsList had its frame callback cancelled exactly once.
GarbageFree(i) ==
  /\ analyzerMap[i] = 0
  /\ RunningOf(PL, i) = {}
  /\ \A p \in PipeIds :
       (pipes[p].mon = PL /\ pipes[p].id = i) =>
         (pipes[p].stopped /\ pipes[p].cancels = 1)

C3_SilentWithoutPipeline ==
  /\ \A i \in Identities :
       RunningOf(PL, i) = {} =>
         (i \notin speakingParticipants /\ audioLevels[i] \in {Undefined, 0})
  /\ RunningOf(AC, Local) = {} => (~isSpeaking /\ audioLevel = 0)

\* C4: no frame step of a pipeline runs after its teardown returned, and no
\* callback of a torn-down pipeline is left scheduled.
C4_NoFrameAfterStop ==
  /\ \A p \in PipeIds : ~pipes[p].late
  /\ \A f \in raf : ~pipes[f.pipe].stopped

\* A pipeline that ran frame steps has been torn down while another
\* pipeline's callback is still scheduled.
C4_Witness ==
  /\ \E p \in PipeIds : pipes[p].stopped /\ pipes[p].stepped
  /\ raf # {}

\* C5: a torn-down pipeline's AudioContext is closed, and the open contexts
\* are exactly those of the running pipelines.
C5_ContextReleased ==
  /\ \A p \in PipeIds : pipes[p].stopped => ~pipes[p].ctxOpen
  /\ Cardinality({p \in PipeIds : pipes[p].ctxOpen})
       = Cardinality({p \in PipeIds : Running(p)})

LocalWriters == {f \in raf : pipes[f.pipe].mon = AC}

SlotWriters(i) == {f \in raf : pipes[f.pipe].mon = PL /\ pipes[f.pipe].id = i}

\* C7: every state entry has at most one scheduled writer.
C7_SingleWriter ==
  /\ Cardinality(LocalWriters) <= 1
  /\ \A i \in Identities : Cardinality(SlotWriters(i)) <= 1

\* The local identity's two analysers are both scheduled, each writing its
\* own state entry.
C7_Witness ==
  /\ LocalWriters # {}
  /\ SlotWriters(Local) # {}

\* C8: a reconciliation pass over a snapshot unchanged since the previous
\* pass creates no pipeline and destroys none.
C8_IdempotentPass ==
  [][(mounted /\ plDirty /\ changed = "no" /\ last'.op = "PLPass")
       => (pipes' = pipes /\ analyzerMap' = analyzerMap)]_vars

\* What the last frame step should have left in the speaking flag.
ExpectedSpeaking == last.enabled /\ ~last.muted /\ Loud(last.data)

\* C9: after a frame step the identity's speaking flag is true exactly if
\* the track was enabled and unmuted and the loudness computed exceeds 0.1,
\* and the stored loudness agrees with the flag.
C9_SpeakingIsFunctionOfFrame ==
  /\ last.frame = AC =>
       /\ isSpeaking = ExpectedSpeaking
       /\ isSpeaking = (audioLevel * 100 > LevelDen)
  /\ last.frame = PL =>
       /\ (last.id \in speakingParticipants) = ExpectedSpeaking
       /\ (last.id \in speakingParticipants) = (audioLevels[last.id] * 100 > LevelDen)

\* A frame step of ParticipantsList has just classified a loud, enabled,
\* unmuted track as speaking.
C9_Witness ==
  /\ last.frame = PL
  /\ ExpectedSpeaking
  /\ last.id \in speakingParticipants

\* This step ran a frame step of monitor mon.
FrameStepOf(mon) == last'.frame = mon /\ nextFrameId' # nextFrameId

\* C10 (as claimed): a frame step taken while the track is muted leaves the
\* identity not speaking whatever the spectrum; one taken while it is unmuted
\* on a loud spectrum leaves it speaking.
C10_MuteSemanticsAsClaimed ==
  [][/\ FrameStepOf(AC) =>
          /\ tracks[Local].muted => ~isSpeaking'
          /\ (~tracks[Local].muted /\ Loud(last'.data)) => isSpeaking'
     /\ FrameStepOf(PL) =>
          /\ tracks[last'.id].muted => last'.id \notin speakingParticipants'
          /\ (~tracks[last'.id].muted /\ Loud(last'.data))
               => last'.id \in speakingParticipants']_vars

\* C10 (amended): a frame step taken while the track is muted leaves the
\* identity not speaking whatever the spectrum; one taken while it is enabled
\* and unmuted on a loud spectrum leaves it speaking.
C10_MuteSemantics ==
  [][/\ FrameStepOf(AC) =>
          /\ tracks[Local].muted => ~isSpeaking'
          /\ (~tracks[Local].muted /\ tracks[Local].enabled /\ Loud(last'.data))
               => isSpeaking'
     /\ FrameStepOf(PL) =>
          /\ tracks[last'.id].muted => last'.id \notin speakingParticipants'
          /\ (~tracks[last'.id].muted /\ tracks[last'.id].enabled /\ Loud(last'.data))
               => last'.id \in speakingParticipants']_vars

\* The local track was muted at the pipeline's previous frame step, is
\* unmuted now, and one frame step on a loud spectrum reported it speaking.
C10_Witness ==
  /\ last.frame = PL
  /\ last.id = Local
  /\ last.wasQuiet
  /\ ~last.muted
  /\ Loud(last.data)
  /\ Local \in speakingParticipants

\* The effect of ParticipantsList has just run to its end (at mount or in a
\* reconciliation pass).
PassCompleted == last.op \in {"PLPass", "Mount"}

Settled == mounted /\ ~plDirty /\ changed = "no"

\* Monitor mon has retried the bind of identity i: a bindable track whose
\* latest bind did not throw has a running pipeline.
BindRetried(mon, i) ==
  (Bindable(i) /\ <<mon, i>> \notin threw) => RunningOf(mon, i) # {}

\* C12: an identity whose track became bindable has a running pipeline once
\* the pass after the change has completed, in the per-participant monitor
\* and, for the local identity, in the local participant's monitor as well.
C12_BindRetried ==
  Settled =>
    /\ \A i \in Identities : BindRetried(PL, i)
    /\ BindRetried(AC, Local)

\* C13: a bind that throws does not end the pass: after a pass in which some
\* bind threw, the identities that threw have no pipeline and no entry, every
\* other bindable identity of the snapshot has its running pipeline and its
\* entry, and the effect ran to its end (the local participant's monitor, set
\* up before it at mount, is in the same case).
C13_BindFailureIsolated ==
  (PassCompleted /\ threw # {}) =>
    /\ \A i \in Identities :
         /\ <<PL, i>> \in threw => (RunningOf(PL, i) = {} /\ analyzerMap[i] = 0)
         /\ (Bindable(i) /\ <<PL, i>> \notin threw) =>
              (RunningOf(PL, i) # {} /\ analyzerMap[i] \in RunningOf(PL, i))
    /\ (last.op = "Mount" /\ <<AC, Local>> \in threw) =>
         (RunningOf(AC, Local) = {} /\ acEffect.cleanup)

\* A pass in which the bind of the first identity of the snapshot threw has
\* bound the identity after it.
C13_Witness ==
  /\ last.op = "PLPass"
  /\ <<PL, Order[1]>> \in threw
  /\ RunningOf(PL, Order[2]) # {}

RECURSIVE EnergyOf(_, _)
\* The sum of the squares of dataArray's bins, taken magnitude by magnitude:
\* each magnitude of the set ms counts once per bin that holds it.
EnergyOf(dataArray, ms) ==
  IF ms = {} THEN 0
  ELSE LET m == CHOOSE x \in ms : TRUE
       IN  m * m * Cardinality({b \in Bins : dataArray[b] = m})
             + EnergyOf(dataArray, ms \ {m})

Energy(dataArray) == EnergyOf(dataArray, {dataArray[b] : b \in Bins})

\* The estimator has run on last.data.
Estimated == last.op \in {"Estimate", "RaiseBin"}

\* C15: on every vector of 8-bit bins the loudness is
\* min(sqrt(sum of squares / bin count) / 128, 1): written on the squares,
\* loudness^2 is (sum of squares) / (bin count * 128^2) where that is at most
\* 1 and is 1 above; it lies in [0,1]; on the all-zero vector the loudness is
\* 0 and speaking is false.
C15_LoudnessFormula ==
  Estimated =>
    /\ \A b \in Bins : last.data[b] \in 0..255
    /\ Energy(last.data) <= BinCount * 128 * 128 => audioLevel = Energy(last.data)
    /\ Energy(last.data) >= BinCount * 128 * 128 => audioLevel = BinCount * 128 * 128
    /\ audioLevel >= 0
    /\ audioLevel <= LevelDen
    /\ (\A b \in Bins : last.data[b] = 0) => (audioLevel = 0 /\ ~isSpeaking)

\* The estimator has run on a vector whose RMS is above the ceiling and has
\* reported exactly 1.
C15_Witness ==
  /\ last.op = "Estimate"
  /\ Energy(last.data) > BinCount * 128 * 128
  /\ audioLevel = LevelDen
  /\ isSpeaking

\* C16: raising a bin never lowers the loudness, the loudness never exceeds
\* 1.0, once at 1.0 it stays there, and with every bin at the maximum it is
\* 1.0 (checked from every vector, those with a bin at the maximum included).
C16_MonotoneAndSaturating ==
  [][last'.op = "RaiseBin" =>
       /\ audioLevel' >= audioLevel
       /\ audioLevel' <= LevelDen
       /\ audioLevel = LevelDen => audioLevel' = LevelDen
       /\ isSpeaking => isSpeaking'
       /\ (\A b \in Bins : last'.data[b] = 255) => audioLevel' = LevelDen]_vars

\* A vector with a bin at the maximum had another bin raised, and the
\* loudness is at 1.0 although not every bin is at the maximum.
C16_Witness ==
  /\ last.op = "RaiseBin"
  /\ \E b \in Bins : last.data[b] = 255
  /\ \E b \in Bins : last.data[b] < 255
  /\ audioLevel = LevelDen

\* The operations of the monitors: both effects at mount, both cleanups at
\* unmount, a reconciliation pass, a frame step.
MonitorOps == {"Mount", "Unmount", "PLPass", "FrameTick"}

\* C17: no monitor operation changes the participant membership or any
\* track's publication, media stream, subscribed, enabled or muted state.
C17_TracksUntouched ==
  [][last'.op \in MonitorOps =>
       (participants' = participants /\ tracks' = tracks)]_vars

\* A frame step has just written the speaking set and the loudness map for
\* a live track of a snapshot with two participants.
C17_Witness ==
  /\ last.op = "FrameTick"
  /\ last.frame = PL
  /\ participants = Identities
  /\ last.id \in speakingParticipants
  /\ audioLevels[last.id] > 0
  /\ tracks[last.id].subscribed

\* The track of identity i is disabled or muted.
Quiet(i) == ~tracks[i].enabled \/ tracks[i].muted

\* This step ran a frame step on a disabled or muted track: it reported
\* loudness 0 and not speaking, kept the pipeline and its registry entry and
\* scheduled the pipeline's next frame callback.
QuietFrameStepKeepsPipeline ==
  /\ (FrameStepOf(AC) /\ Quiet(Local)) =>
       /\ audioLevel' = 0
       /\ ~isSpeaking'
       /\ acEffect'.pipe # 0
       /\ \E f \in raf' : f.pipe = acEffect'.pipe
  /\ (FrameStepOf(PL) /\ Quiet(last'.id)) =>
       /\ audioLevels'[last'.id] = 0
       /\ last'.id \notin speakingParticipants'
       /\ analyzerMap' = analyzerMap
       /\ analyzerMap[last'.id] # 0
       /\ \E f \in raf' : f.pipe = analyzerMap[last'.id]

\* This step is the pass that follows changes of mute flags only, and it
\* left every pipeline and the registry as they were.
MuteKeepsPipelines ==
  (changed = "mute" /\ last'.op = "PLPass") =>
    (pipes' = pipes /\ analyzerMap' = analyzerMap)

\* C18: a frame step on a disabled or muted track reports 0 / not speaking
\* and keeps the pipeline looping, and muting or unmuting never destroys or
\* recreates a pipeline.
C18_MuteIsTransient ==
  [][QuietFrameStepKeepsPipeline /\ MuteKeepsPipelines]_vars

\* This step is a frame step of ParticipantsList that failed.
FrameFaultOf(mon) == last'.op = "FrameFault" /\ last'.frame = mon

\* After a failed frame step of identity i's pipeline, that pipeline has no
\* scheduled callback and every other pipeline keeps its own.
FaultStopsOnlyThatPipeline ==
  FrameFaultOf(PL) =>
    /\ \A f \in raf' : f.pipe # analyzerMap[last'.id]
    /\ \A f \in raf : f.pipe # analyzerMap[last'.id] => f \in raf'
    /\ \A i \in Identities \ {last'.id} : analyzerMap'[i] = analyzerMap[i]

\* After a failed frame step of identity i's pipeline, i has no registry
\* entry.
FaultRemovesEntry == FrameFaultOf(PL) => analyzerMap'[last'.id] = 0

\* C19: a frame step that fails stops its pipeline and removes its registry
\* entry, and the other identities' pipelines keep their frame loops.
C19_FrameFailureIsolated ==
  [][FaultStopsOnlyThatPipeline /\ FaultRemovesEntry]_vars

\* C20: the two monitors are one pipeline for the local identity: once the
\* pass after every change has completed and no bind has thrown, the local
\* participant's monitor has a running pipeline for the local identity
\* exactly if the per-participant monitor has one.
C20_MonitorsAgreeOnLocal ==
  (Settled /\ threw = {}) =>
    ((RunningOf(AC, Local) # {}) <=> (RunningOf(PL, Local) # {}))

\* C21: in every state of ParticipantsList (initially, after every frame
\* step, pass, mount and unmount) an identity is in speakingParticipants
\* exactly if audioLevels has a value for it and that value is above 0.1.
C21_SpeakingMatchesLevels ==
  \A i \in Identities :
    (i \in speakingParticipants) <=>
      (audioLevels[i] # Undefined /\ audioLevels[i] * 100 > BinCount * 128 * 128)

\* A frame step has just stored a loudness above 0 and below the threshold
\* for an identity and left it out of the speaking set.
C21_Witness ==
  /\ last.frame = PL
  /\ last.op = "FrameTick"
  /\ audioLevels[last.id] > 0
  /\ audioLevels[last.id] * 100 <= BinCount * 128 * 128
  /\ last.id \notin speakingParticipants

\* The scheduled frame callbacks of pipeline p.
PendingOf(p) == {f \in raf : f.pipe = p}

\* C22: every pipeline between its bind and its teardown has exactly one
\* scheduled frame callback, and the frame id recorded for cancellation
\* (animationFrameId in AudioControls, analyzerData.animationFrameId in
\* ParticipantsList) is the id of that callback.
C22_OnePendingCallback ==
  \A p \in PipeIds :
    ~pipes[p].stopped =>
      /\ Cardinality(PendingOf(p)) = 1
      /\ \A f \in PendingOf(p) : f.id = pipes[p].frameId

\* A pipeline of ParticipantsList that has run a frame step and one of
\* AudioControls are both between bind and teardown.
C22_Witness ==
  /\ \E p \in PipeIds :
       pipes[p].mon = PL /\ pipes[p].stepped /\ ~pipes[p].stopped /\ PendingOf(p) # {}
  /\ \E q \in PipeIds :
       pipes[q].mon = AC /\ ~pipes[q].stopped /\ PendingOf(q) # {}

\* C23: the room event emitted last made its listeners invoke
\* onConnectionChange at most once, and at most one Connected listener (and
\* one Disconnected listener) of RoomConnection is registered on the Room,
\* however many times connectToRoom was called.
C23_OneListenerPerEvent ==
  /\ rc.calls <= 1
  /\ rc.handlers <= 1

\* C24: RoomConnection's isConnected and App's isConnected agree after every
\* step of connectToRoom, disconnectFromRoom and the listeners, and
\* isConnecting is false whenever no connectToRoom call is awaiting.
C24_FlagsAgree ==
  /\ rc.isConnected = rc.appConnected
  /\ rc.pc = "idle" => ~rc.isConnecting
  /\ rc.pc # "idle" => rc.isConnecting

\* A second connectToRoom call has just failed after an earlier session was
\* connected and ended.
C24_Witness ==
  /\ last.op = "ConnectFails"
  /\ rc.connects = 2
  /\ rc.handlers >= 1
  /\ ~rc.isConnected
  /\ ~rc.appConnected
  /\ ~rc.isConnecting

\* The audio elements that are playing.
Playing == {a \in AudioIds(tts) : tts.audios[a] = "playing"}

\* After stopSpeaking, until speak, speakWithDelay or triggerPendingSpeech
\* is called again, no audio is playing.
SilentAfterStop == tts.stopped => Playing = {}

\* At most one element is playing and audioRef.current is that element.
OnePlayingAudio ==
  /\ Cardinality(Playing) <= 1
  /\ \A a \in Playing : tts.audioRef = a

\* C25: after stopSpeaking no audio plays or starts until the next call of
\* speak, speakWithDelay or triggerPendingSpeech, also when a speak call was
\* awaiting its response at the time; and at most one audio element plays at
\* any time, with audioRef referring to it.
C25_StopSilences == SilentAfterStop /\ OnePlayingAudio

====
